---- MODULE Spec2Model ----
\* Model of the tic-tac-toe websocket backend (src/main.py).
\* One coroutine `websocket_endpoint` runs per connection on a single asyncio
\* event loop; it can be suspended only at an `await` (receive_json or one of
\* the ConnectionManager sends).  Every action below is the code that runs
\* between two consecutive awaits of one handler.
EXTENDS Integers, Sequences, FiniteSets, TLC

\* ---------------------------------------------------------------- bounds
NConn == 2          \* number of websocket connections
MaxPlayers == 3     \* number of Player objects ever constructed (joins handled)
MaxCell == 4        \* clients name the cells 0..MaxCell (and -1, 9, see below)
OpenCells == 3      \* Endgame: cells still empty when the endgame starts

Conns == 1..NConn
\* data["nickname"]: the code only copies it, so each client keeps to one name.
Nickname(c) == << "alice", "bob", "carol", "dave" >>[c]
\* data["cell"] values that are tried: the first cells of the board, one
\* negative index (Python reads it as the last cell) and one index past the
\* end of the list.
CellInputs == (0..MaxCell) \cup {-1, 9}
UnknownTypes == {"ping"}

None == 0           \* Python None for Optional[Player] / Optional[GameBoard]
NoData == [type |-> "none"]

VARIABLES
    pc,                 \* per connection: where its handler is suspended
    connected,          \* per connection: the transport is still open
    active_connections, \* manager.active_connections
    waiting_players,    \* the queue.Queue of Player objects
    players,            \* the dict websocket -> Player
    heap,               \* the Player objects, by identity
    boards,             \* the GameBoard objects' `board` lists, by identity
    data,               \* per handler: local `data` (last message received)
    new_player,         \* per handler: local `new_player`
    player,             \* per handler: local `player`
    opponent,           \* per handler: local `opponent`
    winner,             \* per handler: local `winner`
    out,                \* per handler: events it has sent for `data`, in order
    over                \* per board: a gameover event has been sent for it

vars == <<pc, connected, active_connections, waiting_players, players, heap,
          boards, data, new_player, player, opponent, winner, out, over>>

\* ---------------------------------------------------------------- GameBoard
\* Variant of winning_combinations whose last diagonal is mistyped.
winning_combinationsTypo ==
    << <<0, 1, 2>>, <<3, 4, 5>>, <<6, 7, 8>>,
       <<0, 3, 6>>, <<1, 4, 7>>, <<2, 5, 8>>,
       <<0, 4, 8>>, <<2, 4, 5>> >>

winning_combinations ==
    << <<0, 1, 2>>, <<3, 4, 5>>, <<6, 7, 8>>,
       <<0, 3, 6>>, <<1, 4, 7>>, <<2, 5, 8>>,
       <<0, 4, 8>>, <<2, 4, 6>> >>

\* GameBoard.__init__: nine blank cells.  Cell i of the Python list is b[i+1].
EmptyBoard == [i \in 1..9 |-> " "]

\* Python list indexing: a negative index counts from the end; anything
\* outside -9..8 raises IndexError.
InRange(position) == position >= -9 /\ position <= 8
ListIndex(position) == IF position < 0 THEN position + 9 ELSE position

Cell(b, position) == b[ListIndex(position) + 1]

\* Variant of MoveRejected that only notices cells held by X.
MoveRejectedOnlyX(b, position) == Cell(b, position) = "X"

\* make_move raises InvalidMoveException when the cell is not blank.
MoveRejected(b, position) == Cell(b, position) # " "

\* Variant of make_move that also blanks the first cell.
make_moveBlanksFirst(b, position, symbol) ==
    [[b EXCEPT ![1] = " "] EXCEPT ![ListIndex(position) + 1] = symbol]

make_move(b, position, symbol) ==
    [b EXCEPT ![ListIndex(position) + 1] = symbol]

\* Variant of is_draw with any() in place of all().
is_drawAny(b) == \E i \in 1..9 : b[i] # " "

is_draw(b) == \A i \in 1..9 : b[i] # " "

ComboWon(b, k) ==
    LET c == winning_combinations[k] IN
    /\ b[c[1] + 1] = b[c[2] + 1]
    /\ b[c[2] + 1] = b[c[3] + 1]
    /\ b[c[3] + 1] # " "

RECURSIVE ScanFrom(_, _)
ScanFrom(b, k) ==
    IF k > Len(winning_combinations)
    THEN (IF is_draw(b) THEN "draw" ELSE "None")
    ELSE IF ComboWon(b, k) THEN b[winning_combinations[k][1] + 1]
    ELSE ScanFrom(b, k + 1)

\* "None" stands for Python None (falsy); every other result is truthy.
get_winner(b) == ScanFrom(b, 1)

\* ---------------------------------------------------------------- Player
Player(ws, nick) ==
    [websocket |-> ws, nickname |-> nick, symbol |-> "", is_my_turn |-> FALSE,
     opponent |-> None, game_board |-> None]

NumPlayers == Cardinality(DOMAIN heap)
NumBoards == Cardinality(DOMAIN boards)

\* ---------------------------------------------------------------- messages
StartMsg(to, symbol, nick) ==
    [to |-> to, type |-> "start", symbol |-> symbol, opponent_nickname |-> nick]
TurnMsg(to, value) == [to |-> to, type |-> "turn", value |-> value]
MoveMsg(to, cell, symbol) ==
    [to |-> to, type |-> "move", cell |-> cell, symbol |-> symbol]
GameoverMsg(to, result) == [to |-> to, type |-> "gameover", result |-> result]
ErrorMsg(to, message) == [to |-> to, type |-> "error", message |-> message]
TextMsg(to, text) == [to |-> to, type |-> "text", text |-> text]

\* ---------------------------------------------------------------- Init
Init ==
    /\ pc = [c \in Conns |-> "connect"]
    /\ connected = [c \in Conns |-> TRUE]
    /\ active_connections = {}
    /\ waiting_players = << >>
    /\ players = << >>
    /\ heap = << >>
    /\ boards = << >>
    /\ data = [c \in Conns |-> NoData]
    /\ new_player = [c \in Conns |-> None]
    /\ player = [c \in Conns |-> None]
    /\ opponent = [c \in Conns |-> None]
    /\ winner = [c \in Conns |-> "None"]
    /\ out = [c \in Conns |-> << >>]
    /\ over = << >>

\* Locals are dead at the top of the loop (each is assigned before it is read),
\* so they are cleared when the handler goes back to receive_json or returns.
ClearLocals(c) ==
    /\ new_player' = [new_player EXCEPT ![c] = None]
    /\ player' = [player EXCEPT ![c] = None]
    /\ opponent' = [opponent EXCEPT ![c] = None]
    /\ winner' = [winner EXCEPT ![c] = "None"]

\* ---------------------------------------------------------------- exit paths
\* `except WebSocketDisconnect` / `except Exception`: manager.disconnect only
\* removes the socket from active_connections; the coroutine then returns and
\* the server closes the transport.
\* `data` and `out` keep what the handler was doing when it ended.
HandlerExit(c) ==
    /\ pc' = [pc EXCEPT ![c] = "done"]
    /\ connected' = [connected EXCEPT ![c] = FALSE]
    /\ active_connections' = active_connections \ {c}
    /\ ClearLocals(c)

\* manager.connect: accept the socket and register it.
Connect(c) ==
    /\ pc[c] = "connect"
    /\ connected[c]
    /\ pc' = [pc EXCEPT ![c] = "recv"]
    /\ active_connections' = active_connections \cup {c}
    /\ UNCHANGED <<connected, waiting_players, players, heap, boards, data,
                   new_player, player, opponent, winner, out, over>>

\* The client (or the network) closes the transport; it can happen while the
\* handler is suspended anywhere.
ClientClose(c) ==
    /\ pc[c] \notin {"connect", "done"}
    /\ connected[c]
    /\ connected' = [connected EXCEPT ![c] = FALSE]
    /\ UNCHANGED <<pc, active_connections, waiting_players, players, heap,
                   boards, data, new_player, player, opponent, winner, out,
                   over>>

\* receive_json on a closed transport raises WebSocketDisconnect.
RecvDisconnect(c) ==
    /\ pc[c] = "recv"
    /\ ~connected[c]
    /\ HandlerExit(c)
    /\ UNCHANGED <<waiting_players, players, heap, boards, data, out, over>>

\* ---------------------------------------------------------------- sending
\* A ConnectionManager.send_* call writes the event to the target's transport
\* and then awaits; writing to a closed transport raises.  `out` records the
\* events the handler has written while handling `data`.
CanSend(to) == connected[to]
Emit(c, m) == out' = [out EXCEPT ![c] = Append(@, m)]

\* ---------------------------------------------------------------- join
\* Variant of JoinWait that queues the new Player without looking at the
\* queue first.
JoinWaitUnchecked(c) ==
    /\ pc[c] = "recv"
    /\ connected[c]
    /\ NumPlayers < MaxPlayers
    /\ LET n == NumPlayers + 1 IN
        /\ heap' = heap @@ (n :> Player(c, Nickname(c)))
        /\ waiting_players' = Append(waiting_players, n)
    /\ UNCHANGED <<pc, connected, active_connections, players, boards, data,
                   new_player, player, opponent, winner, out, over>>

\* data["type"] == "join", waiting_players empty: the new Player is queued and
\* the loop goes straight back to receive_json (no await in between).
JoinWait(c) ==
    /\ pc[c] = "recv"
    /\ connected[c]
    /\ NumPlayers < MaxPlayers
    /\ waiting_players = << >>
    /\ LET n == NumPlayers + 1 IN
        /\ heap' = heap @@ (n :> Player(c, Nickname(c)))
        /\ waiting_players' = Append(waiting_players, n)
    /\ UNCHANGED <<pc, connected, active_connections, players, boards, data,
                   new_player, player, opponent, winner, out, over>>

\* Variant of PairedHeap with the two symbols exchanged.
PairedHeapSwapped(n, opp, b, c, nick) ==
    [i \in DOMAIN heap \cup {n} |->
        IF i = n
        THEN [Player(c, nick) EXCEPT !.opponent = opp, !.symbol = "O",
                                     !.game_board = b]
        ELSE IF i = opp
        THEN [heap[i] EXCEPT !.opponent = n, !.symbol = "X", !.game_board = b]
        ELSE heap[i]]

\* The Player objects after lines 119-131: n is the new player, opp the one
\* taken from the queue, b the new GameBoard.
PairedHeap(n, opp, b, c, nick) ==
    [i \in DOMAIN heap \cup {n} |->
        IF i = n
        THEN [Player(c, nick) EXCEPT !.opponent = opp, !.symbol = "X",
                                     !.game_board = b]
        ELSE IF i = opp
        THEN [heap[i] EXCEPT !.opponent = n, !.symbol = "O", !.game_board = b]
        ELSE heap[i]]

\* Lines 133-134: players[websocket] = new_player, then
\* players[opponent.websocket] = opponent (the later assignment wins).
PairedPlayers(n, opp, c) ==
    LET ows == heap[opp].websocket IN
    [w \in DOMAIN players \cup {c, ows} |->
        IF w = ows THEN opp ELSE IF w = c THEN n ELSE players[w]]

\* data["type"] == "join", waiting_players not empty: lines 119-136, up to the
\* await of the first send_start.
JoinPair(c) ==
    /\ pc[c] = "recv"
    /\ connected[c]
    /\ NumPlayers < MaxPlayers
    /\ waiting_players # << >>
    /\ LET n == NumPlayers + 1
           opp == Head(waiting_players)
           b == NumBoards + 1
       IN
        /\ waiting_players' = Tail(waiting_players)
        /\ heap' = PairedHeap(n, opp, b, c, Nickname(c))
        /\ boards' = boards @@ (b :> EmptyBoard)
        /\ over' = over @@ (b :> FALSE)
        /\ players' = PairedPlayers(n, opp, c)
        /\ new_player' = [new_player EXCEPT ![c] = n]
        /\ opponent' = [opponent EXCEPT ![c] = opp]
        /\ out' = [out EXCEPT ![c] =
                     << StartMsg(c, "X", heap[opp].nickname) >>]
    /\ data' = [data EXCEPT ![c] = [type |-> "join", nickname |-> Nickname(c)]]
    /\ pc' = [pc EXCEPT ![c] = "l136"]
    /\ UNCHANGED <<connected, active_connections, player, winner>>

\* Resumed from line 136: send_start to the opponent's socket (line 137).
JoinSendStartOpponent(c) ==
    /\ pc[c] = "l136"
    /\ LET np == new_player[c]
           opp == opponent[c]
           to == heap[opp].websocket
       IN
        IF CanSend(to)
        THEN /\ Emit(c, StartMsg(to, heap[opp].symbol, heap[np].nickname))
             /\ pc' = [pc EXCEPT ![c] = "l137"]
             /\ UNCHANGED <<connected, active_connections, data, new_player,
                            player, opponent, winner>>
        ELSE /\ HandlerExit(c)
             /\ UNCHANGED <<data, out>>
    /\ UNCHANGED <<waiting_players, players, heap, boards, over>>

\* Resumed from line 137: new_player.is_my_turn = True, then send_turn to the
\* joining socket (lines 138-139).
JoinSetTurn(c) ==
    /\ pc[c] = "l137"
    /\ heap' = [heap EXCEPT ![new_player[c]].is_my_turn = TRUE]
    /\ IF CanSend(c)
       THEN /\ Emit(c, TurnMsg(c, TRUE))
            /\ pc' = [pc EXCEPT ![c] = "l139"]
            /\ UNCHANGED <<connected, active_connections, data, new_player,
                           player, opponent, winner>>
       ELSE /\ HandlerExit(c)
            /\ UNCHANGED <<data, out>>
    /\ UNCHANGED <<waiting_players, players, boards, over>>

\* The last await of a branch returns (lines 139, 147, 152, 162, 169, 171):
\* back to receive_json.
LoopBack(c) ==
    /\ pc[c] \in {"l139", "l147", "l152", "l162", "l169", "l171"}
    /\ pc' = [pc EXCEPT ![c] = "recv"]
    /\ data' = [data EXCEPT ![c] = NoData]
    /\ out' = [out EXCEPT ![c] = << >>]
    /\ ClearLocals(c)
    /\ UNCHANGED <<connected, active_connections, waiting_players, players,
                   heap, boards, over>>

\* ---------------------------------------------------------------- move
MoveData(cell) == [type |-> "move", cell |-> cell]
\* A move message on a path that never reads data["cell"].
MoveAnyCell == [type |-> "move"]

\* players.get(websocket) is None (the socket was never paired): line 144
\* raises AttributeError, caught by `except Exception`.
MoveNoPlayer(c) ==
    /\ pc[c] = "recv"
    /\ connected[c]
    /\ c \notin DOMAIN players
    /\ data' = [data EXCEPT ![c] = MoveAnyCell]
    /\ out' = [out EXCEPT ![c] = << >>]
    /\ HandlerExit(c)
    /\ UNCHANGED <<waiting_players, players, heap, boards, over>>

\* Variant of MoveNotYourTurn that passes the turn to the sender.
MoveNotYourTurnGrabs(c) ==
    /\ pc[c] = "recv"
    /\ connected[c]
    /\ c \in DOMAIN players
    /\ heap[players[c]].is_my_turn = FALSE
    /\ data' = [data EXCEPT ![c] = MoveAnyCell]
    /\ player' = [player EXCEPT ![c] = players[c]]
    /\ opponent' = [opponent EXCEPT ![c] = heap[players[c]].opponent]
    /\ heap' = [heap EXCEPT ![players[c]].is_my_turn = TRUE]
    /\ out' = [out EXCEPT ![c] = << ErrorMsg(c, "Not your turn") >>]
    /\ pc' = [pc EXCEPT ![c] = "l147"]
    /\ UNCHANGED <<connected, active_connections, waiting_players, players,
                   boards, new_player, winner, over>>

\* Lines 146-148: the player's flag is False; send_error "Not your turn".
MoveNotYourTurn(c) ==
    /\ pc[c] = "recv"
    /\ connected[c]
    /\ c \in DOMAIN players
    /\ heap[players[c]].is_my_turn = FALSE
    /\ data' = [data EXCEPT ![c] = MoveAnyCell]
    /\ player' = [player EXCEPT ![c] = players[c]]
    /\ opponent' = [opponent EXCEPT ![c] = heap[players[c]].opponent]
    /\ out' = [out EXCEPT ![c] = << ErrorMsg(c, "Not your turn") >>]
    /\ pc' = [pc EXCEPT ![c] = "l147"]
    /\ UNCHANGED <<connected, active_connections, waiting_players, players,
                   heap, boards, new_player, winner, over>>

\* Line 150 with an index outside the list: make_move raises IndexError, which
\* is not InvalidMoveException, so `except Exception` ends the handler.
MoveIndexError(c, cell) ==
    /\ pc[c] = "recv"
    /\ connected[c]
    /\ c \in DOMAIN players
    /\ heap[players[c]].is_my_turn
    /\ ~InRange(cell)
    /\ data' = [data EXCEPT ![c] = MoveData(cell)]
    /\ out' = [out EXCEPT ![c] = << >>]
    /\ HandlerExit(c)
    /\ UNCHANGED <<waiting_players, players, heap, boards, over>>

\* Lines 149-153: make_move raises InvalidMoveException; send_error.
MoveInvalid(c, cell) ==
    /\ pc[c] = "recv"
    /\ connected[c]
    /\ c \in DOMAIN players
    /\ heap[players[c]].is_my_turn
    /\ InRange(cell)
    /\ MoveRejected(boards[heap[players[c]].game_board], cell)
    /\ data' = [data EXCEPT ![c] = MoveData(cell)]
    /\ player' = [player EXCEPT ![c] = players[c]]
    /\ opponent' = [opponent EXCEPT ![c] = heap[players[c]].opponent]
    /\ out' = [out EXCEPT ![c] = << ErrorMsg(c, "Invalid move") >>]
    /\ pc' = [pc EXCEPT ![c] = "l152"]
    /\ UNCHANGED <<connected, active_connections, waiting_players, players,
                   heap, boards, new_player, winner, over>>

\* Variant of MoveAccept without the test of line 146.
MoveAcceptAnyTurn(c, cell) ==
    /\ pc[c] = "recv"
    /\ connected[c]
    /\ c \in DOMAIN players
    /\ InRange(cell)
    /\ LET p == players[c]
           g == heap[p].game_board
       IN
        /\ ~MoveRejected(boards[g], cell)
        /\ boards' = [boards EXCEPT ![g] = make_move(@, cell, heap[p].symbol)]
        /\ player' = [player EXCEPT ![c] = p]
        /\ opponent' = [opponent EXCEPT ![c] = heap[p].opponent]
        /\ out' = [out EXCEPT ![c] =
                     << MoveMsg(heap[p].websocket, cell, heap[p].symbol) >>]
    /\ pc' = [pc EXCEPT ![c] = "l155"]
    /\ data' = [data EXCEPT ![c] = MoveData(cell)]
    /\ UNCHANGED <<connected, active_connections, waiting_players, players,
                   heap, new_player, winner, over>>

\* Lines 143-155: the move is written to the board and send_move goes to the
\* mover's own socket (player.websocket is the socket that just received, so
\* it is open).
MoveAccept(c, cell) ==
    /\ pc[c] = "recv"
    /\ connected[c]
    /\ c \in DOMAIN players
    /\ heap[players[c]].is_my_turn
    /\ InRange(cell)
    /\ LET p == players[c]
           g == heap[p].game_board
       IN
        /\ ~MoveRejected(boards[g], cell)
        /\ boards' = [boards EXCEPT ![g] = make_move(@, cell, heap[p].symbol)]
        /\ player' = [player EXCEPT ![c] = p]
        /\ opponent' = [opponent EXCEPT ![c] = heap[p].opponent]
        /\ out' = [out EXCEPT ![c] =
                     << MoveMsg(heap[p].websocket, cell, heap[p].symbol) >>]
    /\ pc' = [pc EXCEPT ![c] = "l155"]
    /\ data' = [data EXCEPT ![c] = MoveData(cell)]
    /\ UNCHANGED <<connected, active_connections, waiting_players, players,
                   heap, new_player, winner, over>>

\* Resumed from line 155: send_move to the opponent's socket (line 156).
MoveSendOpponent(c) ==
    /\ pc[c] = "l155"
    /\ LET p == player[c]
           to == heap[opponent[c]].websocket
       IN
        IF CanSend(to)
        THEN /\ Emit(c, MoveMsg(to, data[c].cell, heap[p].symbol))
             /\ pc' = [pc EXCEPT ![c] = "l156"]
             /\ UNCHANGED <<connected, active_connections, data, new_player,
                            player, opponent, winner>>
        ELSE /\ HandlerExit(c)
             /\ UNCHANGED <<data, out>>
    /\ UNCHANGED <<waiting_players, players, heap, boards, over>>

\* Resumed from line 156, get_winner() is truthy: send_gameover to the mover's
\* socket (lines 158-161).  The turn flags are left alone.
\* Variant of MoveGameover that passes the turn to the opponent after a result.
MoveGameoverHandsOver(c) ==
    /\ pc[c] = "l156"
    /\ LET p == player[c]
           g == heap[p].game_board
           w == get_winner(boards[g])
           to == heap[p].websocket
       IN
        /\ w # "None"
        /\ IF CanSend(to)
           THEN /\ Emit(c, GameoverMsg(to, w))
                /\ over' = [over EXCEPT ![g] = TRUE]
                /\ pc' = [pc EXCEPT ![c] = "l161"]
                /\ winner' = [winner EXCEPT ![c] = w]
                /\ heap' = [i \in DOMAIN heap |->
                             IF i = heap[p].opponent
                             THEN [heap[i] EXCEPT !.is_my_turn = TRUE]
                             ELSE IF i = p
                             THEN [heap[i] EXCEPT !.is_my_turn = FALSE]
                             ELSE heap[i]]
                /\ UNCHANGED <<connected, active_connections, data,
                               new_player, player, opponent>>
           ELSE /\ HandlerExit(c)
                /\ UNCHANGED <<data, out, over, heap>>
    /\ UNCHANGED <<waiting_players, players, boards>>

MoveGameover(c) ==
    /\ pc[c] = "l156"
    /\ LET p == player[c]
           g == heap[p].game_board
           w == get_winner(boards[g])
           to == heap[p].websocket
       IN
        /\ w # "None"
        /\ IF CanSend(to)
           THEN /\ Emit(c, GameoverMsg(to, w))
                /\ over' = [over EXCEPT ![g] = TRUE]
                /\ pc' = [pc EXCEPT ![c] = "l161"]
                /\ winner' = [winner EXCEPT ![c] = w]
                /\ UNCHANGED <<connected, active_connections, data,
                               new_player, player, opponent>>
           ELSE /\ HandlerExit(c)
                /\ UNCHANGED <<data, out, over>>
    /\ UNCHANGED <<waiting_players, players, heap, boards>>

\* Resumed from line 161: send_gameover to the opponent's socket (line 162).
MoveGameoverOpponent(c) ==
    /\ pc[c] = "l161"
    /\ LET to == heap[opponent[c]].websocket IN
        IF CanSend(to)
        THEN /\ Emit(c, GameoverMsg(to, winner[c]))
             /\ pc' = [pc EXCEPT ![c] = "l162"]
             /\ UNCHANGED <<connected, active_connections, data, new_player,
                            player, opponent, winner>>
        ELSE /\ HandlerExit(c)
             /\ UNCHANGED <<data, out>>
    /\ UNCHANGED <<waiting_players, players, heap, boards, over>>

\* Variant of ToggledHeap that clears the mover's flag and forgets the
\* opponent's.
ToggledHeapMoverOnly(p, opp) ==
    [i \in DOMAIN heap |->
        IF i = p THEN [heap[i] EXCEPT !.is_my_turn = FALSE] ELSE heap[i]]

\* Lines 166-167: the flags after the hand-over.
ToggledHeap(p, opp) ==
    [i \in DOMAIN heap |->
        IF i = opp THEN [heap[i] EXCEPT !.is_my_turn = TRUE]
        ELSE IF i = p THEN [heap[i] EXCEPT !.is_my_turn = FALSE]
        ELSE heap[i]]

\* Resumed from line 156, get_winner() is None: hand the turn over and
\* send_turn to the mover's socket (lines 158-168).
MoveToggle(c) ==
    /\ pc[c] = "l156"
    /\ LET p == player[c]
           opp == opponent[c]
           g == heap[p].game_board
           to == heap[p].websocket
       IN
        /\ get_winner(boards[g]) = "None"
        /\ heap' = ToggledHeap(p, opp)
        /\ IF CanSend(to)
           THEN /\ Emit(c, TurnMsg(to, heap'[p].is_my_turn))
                /\ pc' = [pc EXCEPT ![c] = "l168"]
                /\ UNCHANGED <<connected, active_connections, data,
                               new_player, player, opponent, winner>>
           ELSE /\ HandlerExit(c)
            /\ UNCHANGED <<data, out>>
    /\ UNCHANGED <<waiting_players, players, boards, over>>

\* Resumed from line 168: send_turn to the opponent's socket (line 169).
MoveSendTurnOpponent(c) ==
    /\ pc[c] = "l168"
    /\ LET opp == opponent[c]
           to == heap[opp].websocket
       IN
        IF CanSend(to)
        THEN /\ Emit(c, TurnMsg(to, heap[opp].is_my_turn))
             /\ pc' = [pc EXCEPT ![c] = "l169"]
             /\ UNCHANGED <<connected, active_connections, data, new_player,
                            player, opponent, winner>>
        ELSE /\ HandlerExit(c)
             /\ UNCHANGED <<data, out>>
    /\ UNCHANGED <<waiting_players, players, heap, boards, over>>

\* ---------------------------------------------------------------- other types
\* Line 171: send_message with the unknown-type text.
\* Variant of UnknownType that drops the connection instead of answering.
UnknownTypeDisconnects(c, t) ==
    /\ pc[c] = "recv"
    /\ connected[c]
    /\ data' = [data EXCEPT ![c] = [type |-> t]]
    /\ HandlerExit(c)
    /\ UNCHANGED <<waiting_players, players, heap, boards, out, over>>

UnknownType(c, t) ==
    /\ pc[c] = "recv"
    /\ connected[c]
    /\ data' = [data EXCEPT ![c] = [type |-> t]]
    /\ out' = [out EXCEPT ![c] = << TextMsg(c, t) >>]
    /\ pc' = [pc EXCEPT ![c] = "l171"]
    /\ UNCHANGED <<connected, active_connections, waiting_players, players,
                   heap, boards, new_player, player, opponent, winner, over>>

\* ---------------------------------------------------------------- system
Next ==
    \E c \in Conns :
        \/ Connect(c)
        \/ ClientClose(c)
        \/ RecvDisconnect(c)
        \/ JoinWait(c)
        \/ JoinPair(c)
        \/ JoinSendStartOpponent(c)
        \/ JoinSetTurn(c)
        \/ MoveNoPlayer(c)
        \/ MoveNotYourTurn(c)
        \/ \E cell \in CellInputs : MoveIndexError(c, cell)
        \/ \E cell \in CellInputs : MoveInvalid(c, cell)
        \/ \E cell \in CellInputs : MoveAccept(c, cell)
        \/ MoveSendOpponent(c)
        \/ MoveGameover(c)
        \/ MoveGameoverOpponent(c)
        \/ MoveToggle(c)
        \/ MoveSendTurnOpponent(c)
        \/ \E t \in UnknownTypes : UnknownType(c, t)
        \/ LoopBack(c)

Spec == Init /\ [][Next]_vars

\* ---------------------------------------------------------------- endgame
\* The last moves of one match, with every cell of the board open to the
\* clients.  It starts where Spec gets after connection 1 joined and waited,
\* connection 2 joined and was paired with it, and the two played
\* 9 - OpenCells accepted moves in turn on the first cells without completing
\* a triple; both handlers are back at receive_json.
AllBoards == [1..9 -> {" ", "X", "O"}]
Count(b, s) == Cardinality({i \in 1..9 : b[i] = s})
EndgameBoards ==
    {b \in AllBoards :
        /\ \A i \in 1..9 : (b[i] = " ") <=> (i > 9 - OpenCells)
        /\ Count(b, "X") - Count(b, "O") \in {0, 1}
        /\ \A k \in 1..Len(winning_combinations) : ~ComboWon(b, k)}
EndgameCellInputs == (0..8) \cup {-1, 9}

InitEndgame ==
    /\ pc = [c \in Conns |-> IF c \in {1, 2} THEN "recv" ELSE "connect"]
    /\ connected = [c \in Conns |-> TRUE]
    /\ active_connections = {1, 2}
    /\ waiting_players = << >>
    /\ players = << 1, 2 >>
    /\ \E b \in EndgameBoards :
        /\ boards = << b >>
        /\ heap = << [websocket |-> 1, nickname |-> Nickname(1),
                      symbol |-> "O",
                      is_my_turn |-> (Count(b, "X") # Count(b, "O")),
                      opponent |-> 2, game_board |-> 1],
                     [websocket |-> 2, nickname |-> Nickname(2),
                      symbol |-> "X",
                      is_my_turn |-> (Count(b, "X") = Count(b, "O")),
                      opponent |-> 1, game_board |-> 1] >>
    /\ data = [c \in Conns |-> NoData]
    /\ new_player = [c \in Conns |-> None]
    /\ player = [c \in Conns |-> None]
    /\ opponent = [c \in Conns |-> None]
    /\ winner = [c \in Conns |-> "None"]
    /\ out = [c \in Conns |-> << >>]
    /\ over = << FALSE >>

NextEndgame ==
    \E c \in Conns :
        \/ ClientClose(c)
        \/ RecvDisconnect(c)
        \/ MoveNotYourTurn(c)
        \/ \E cell \in EndgameCellInputs : MoveIndexError(c, cell)
        \/ \E cell \in EndgameCellInputs : MoveInvalid(c, cell)
        \/ \E cell \in EndgameCellInputs : MoveAccept(c, cell)
        \/ MoveSendOpponent(c)
        \/ MoveGameover(c)
        \/ MoveGameoverOpponent(c)
        \/ MoveToggle(c)
        \/ MoveSendTurnOpponent(c)
        \/ \E t \in UnknownTypes : UnknownType(c, t)
        \/ LoopBack(c)

SpecEndgame == InitEndgame /\ [][NextEndgame]_vars

\* ---------------------------------------------------------------- vocabulary
\* The eight lines of the 3x3 board, as sets of list indices: three rows,
\* three columns, two diagonals.
Lines ==
    {{3 * r, 3 * r + 1, 3 * r + 2} : r \in 0..2}
        \cup {{k, k + 3, k + 6} : k \in 0..2}
        \cup {{0, 4, 8}, {2, 4, 6}}
HasLine(b, s) == \E l \in Lines : \A i \in l : b[i + 1] = s
Full(b) == \A i \in 1..9 : b[i] \in {"X", "O"}
\* The result of a board: the symbol that holds a line, else "draw" when no
\* cell is empty, else "None".
Evaluation(b) ==
    IF HasLine(b, "X") THEN "X"
    ELSE IF HasLine(b, "O") THEN "O"
    ELSE IF Full(b) THEN "draw"
    ELSE "None"
\* The Player objects that share GameBoard g: the two sides of that match.
PlayersOf(g) == {p \in DOMAIN heap : heap[p].game_board = g}
OnTurn(g) == {p \in PlayersOf(g) : heap[p].is_my_turn}
\* Handler c takes a message off its socket in this step: `data` is NoData at
\* receive_json and holds the message afterwards.
Receives(c, type) ==
    /\ pc[c] = "recv"
    /\ connected[c]
    /\ data[c] = NoData
    /\ data'[c].type = type
\* Handler c is the only one that writes an event in this step.
OnlySends(c, msgs) ==
    /\ out'[c] = msgs
    /\ \A d \in Conns \ {c} : out'[d] = out[d]
Paired(c) == c \in DOMAIN players
\* Board g is played between two different connections.
TwoSided(g) ==
    \E p, q \in PlayersOf(g) : heap[p].websocket # heap[q].websocket
\* A join is handled in this step: a Player object is constructed.
JoinHandled == NumPlayers' = NumPlayers + 1
\* A join pairs in this step: a GameBoard is constructed.
PairFormed == NumBoards' = NumBoards + 1

\* ---------------------------------------------------------------- C1
\* C1: while a match is in progress (two players share a board and no gameover
\* has been sent for it) exactly one of its two players has is_my_turn = True,
\* at every await of the join and move handlers.
TurnExclusivity ==
    \A g \in DOMAIN boards :
        (TwoSided(g) /\ ~over[g]) => Cardinality(OnTurn(g)) = 1

\* ---------------------------------------------------------------- C2
\* C2: once a gameover has been sent for a match, no later move message changes
\* any cell of its board.
TerminalStability ==
    [][\A g \in DOMAIN boards : over[g] => boards'[g] = boards[g]]_vars

MatchesOf(c) ==
    {heap[p].game_board : p \in {q \in DOMAIN heap :
        heap[q].websocket = c /\ heap[q].game_board # None}}
PairingExclusivity ==
    /\ \A c \in Conns : Cardinality(MatchesOf(c)) <= 1
    /\ \A g \in DOMAIN boards :
        Cardinality({heap[p].websocket : p \in PlayersOf(g)}) = 2

\* ---------------------------------------------------------------- C5
\* C5: waiting_players never holds more than one player, and a join handled
\* while a player is waiting is paired with that player instead of waiting too.
SingleWaitingSlot ==
    /\ [](Len(waiting_players) <= 1)
    /\ [][JoinHandled =>
            IF waiting_players = << >>
            THEN waiting_players' = << NumPlayers' >>
            ELSE /\ waiting_players' = << >>
                 /\ heap'[NumPlayers'].opponent = Head(waiting_players)
                 /\ heap'[Head(waiting_players)].opponent = NumPlayers']_vars

\* Two connections joined one after the other and the second was paired with
\* the first; nobody is left waiting.
SecondJoinPaired ==
    /\ waiting_players = << >>
    /\ \E c \in Conns :
        /\ pc[c] = "l136"
        /\ heap[opponent[c]].websocket # c
        /\ heap[opponent[c]].opponent = new_player[c]

\* ---------------------------------------------------------------- C6
\* C6: when the handler of a waiting player ends on disconnect, that player is
\* taken out of the waiting slot, so no later join can be paired with it.
DisconnectVacatesSlot ==
    [][\A c \in Conns :
        (pc[c] = "recv" /\ ~connected[c] /\ pc'[c] = "done")
        => \A i \in 1..Len(waiting_players') :
            heap'[waiting_players'[i]].websocket # c]_vars

\* ---------------------------------------------------------------- C7
\* C7: a move message from a paired player whose is_my_turn is False changes no
\* board cell and no turn flag, and the only event written for it is one
\* "Not your turn" error to the sender; the handler then waits for the next
\* message.
NotYourTurnRejected ==
    [][\A c \in Conns :
        /\ (Receives(c, "move") /\ Paired(c)
                /\ ~heap[players[c]].is_my_turn)
            => /\ boards' = boards
               /\ heap' = heap
               /\ OnlySends(c, << ErrorMsg(c, "Not your turn") >>)
               /\ pc'[c] = "l147"
        /\ (pc[c] = "l147" /\ pc'[c] # "l147")
            => /\ boards' = boards
               /\ heap' = heap
               /\ out[c] = << ErrorMsg(c, "Not your turn") >>
               /\ \A d \in Conns \ {c} : out'[d] = out[d]
               /\ pc'[c] = "recv"]_vars

\* A paired player that is not on turn has sent a move and got the error.
NotYourTurnAnswered ==
    \E c \in Conns :
        /\ pc[c] = "l147"
        /\ data[c].type = "move"
        /\ ~heap[player[c]].is_my_turn
        /\ heap[heap[player[c]].opponent].is_my_turn
        /\ heap[opponent[c]].websocket # c

\* ---------------------------------------------------------------- C8
\* C8: a move message of the player on turn that names an occupied cell changes
\* no board cell and no turn flag, and the only event written for it is one
\* "Invalid move" error to the sender; the Player that moved still has
\* is_my_turn = True when its handler waits for the next message.
OccupiedCellRejected ==
    [][\A c \in Conns :
        /\ (Receives(c, "move") /\ Paired(c) /\ heap[players[c]].is_my_turn
                /\ InRange(data'[c].cell)
                /\ Cell(boards[heap[players[c]].game_board], data'[c].cell)
                        \in {"X", "O"})
            => /\ boards' = boards
               /\ heap' = heap
               /\ OnlySends(c, << ErrorMsg(c, "Invalid move") >>)
               /\ pc'[c] = "l152"
        /\ (pc[c] = "l152" /\ pc'[c] # "l152")
            => /\ boards' = boards
               /\ heap' = heap
               /\ heap[player[c]].is_my_turn
               /\ out[c] = << ErrorMsg(c, "Invalid move") >>
               /\ \A d \in Conns \ {c} : out'[d] = out[d]
               /\ pc'[c] = "recv"]_vars

\* The player on turn has named a cell that the opponent holds and got the
\* error.
OccupiedCellAnswered ==
    \E c \in Conns :
        /\ pc[c] = "l152"
        /\ heap[player[c]].is_my_turn
        /\ heap[opponent[c]].websocket # c
        /\ Cell(boards[heap[player[c]].game_board], data[c].cell)
                = heap[opponent[c]].symbol

\* ---------------------------------------------------------------- C9
\* C9: a move message of the player on turn whose cell is an integer outside
\* 0..8 changes no board cell and no turn flag, is answered with one error to
\* the sender, and the sender's handler keeps running.
OutOfRangeRejected ==
    [][\A c \in Conns :
        (Receives(c, "move") /\ Paired(c) /\ heap[players[c]].is_my_turn
            /\ data'[c].cell \notin 0..8)
        => /\ boards' = boards
           /\ heap' = heap
           /\ Len(out'[c]) = 1
           /\ out'[c][1].type = "error"
           /\ out'[c][1].to = c
           /\ pc'[c] # "done"]_vars

\* ---------------------------------------------------------------- C10
\* C10: a move message from a connection that has no match yet is answered
\* with one error to that connection, changes no game state, and the handler
\* keeps running.
MoveBeforePairingRejected ==
    [][\A c \in Conns :
        (Receives(c, "move") /\ ~Paired(c))
        => /\ boards' = boards
           /\ heap' = heap
           /\ Len(out'[c]) = 1
           /\ out'[c][1].type = "error"
           /\ out'[c][1].to = c
           /\ pc'[c] # "done"]_vars

\* ---------------------------------------------------------------- C11
\* The two move events of an accepted move, as handler c writes them.
OwnMoveMsg(c) ==
    MoveMsg(heap[player[c]].websocket, data[c].cell, heap[player[c]].symbol)
OpponentMoveMsg(c) ==
    MoveMsg(heap[opponent[c]].websocket, data[c].cell,
            heap[player[c]].symbol)

\* What handler c does with an accepted move that does not end the game, up
\* to the turn event for the mover: the move event goes to the mover, then to
\* the opponent; then the flags are exchanged (also when the mover's own
\* socket has gone meanwhile) and the mover is sent turn False.  While the
\* move has reached only one of the two players, no other move is accepted on
\* the same board.
MoveThenHandOver(c) ==
    /\ (pc[c] = "recv" /\ pc'[c] = "l155")
        => out'[c] = << MoveMsg(c, data'[c].cell, heap[players[c]].symbol) >>
    /\ (pc[c] = "l155" /\ pc'[c] = "l156")
        => /\ out'[c] = << OwnMoveMsg(c), OpponentMoveMsg(c) >>
           /\ heap' = heap
    /\ (pc[c] = "l156" /\ pc'[c] # "l156"
            /\ get_winner(boards[heap[player[c]].game_board]) = "None")
        => /\ ~heap'[player[c]].is_my_turn
           /\ heap'[opponent[c]].is_my_turn
           /\ pc'[c] = "l168" =>
                out'[c] = << OwnMoveMsg(c), OpponentMoveMsg(c),
                             TurnMsg(heap[player[c]].websocket, FALSE) >>
    /\ \A d \in Conns \ {c} :
        (pc[c] = "l155" /\ pc[d] = "recv" /\ pc'[d] = "l155")
        => heap[players[d]].game_board # heap[player[c]].game_board

Changed(b, b2) == {i \in 1..9 : b[i] # b2[i]}
\* The symbol whose move is due on b when X starts and the two alternate.
Due(b) == IF Count(b, "X") = Count(b, "O") THEN "X" ELSE "O"

\* C13: while a match is in progress the accepted moves alternate between the
\* two players, X first, under every interleaving of the handlers; and a move
\* of the opponent that is handled while the mover's handler is suspended
\* between its write to the board and the exchange of the flags (in one of the
\* two send_move calls) leaves the board as it is.
MovesAlternate ==
    /\ [](\A g \in DOMAIN boards :
            ~over[g] => Count(boards[g], "X") - Count(boards[g], "O")
                            \in {0, 1})
    /\ [][\A g \in DOMAIN boards :
            (~over[g] /\ boards'[g] # boards[g])
            => \E i \in 1..9 :
                /\ Changed(boards[g], boards'[g]) = {i}
                /\ boards[g][i] = " "
                /\ boards'[g][i] = Due(boards[g])]_vars
    /\ [][\A c, d \in Conns :
            (pc[c] \in {"l155", "l156"} /\ Receives(d, "move") /\ Paired(d)
                /\ players[d] = opponent[c])
            => /\ boards' = boards
               /\ pc'[d] = "l147"]_vars

\* The mover's handler is suspended between its write to the board and the
\* exchange of the flags, and the opponent's move has been answered with
\* "Not your turn" meanwhile.
RacingMoveRejected ==
    \E c, d \in Conns :
        /\ c # d
        /\ pc[c] \in {"l155", "l156"}
        /\ pc[d] = "l147"
        /\ player[d] = opponent[c]
        /\ heap[player[c]].is_my_turn
        /\ Count(boards[heap[player[c]].game_board], "X") >= 2

\* ---------------------------------------------------------------- C14
\* The start event for player p of a new pair, whose other side is q.
StartFor(h, p, q) == StartMsg(h[p].websocket, h[p].symbol, h[q].nickname)
\* The one of p and q that holds symbol s.
Holder(h, p, q, s) == IF h[p].symbol = s THEN p ELSE q

\* What the joining handler c writes while it forms a match: the two players
\* hold X and O, one each; each start event carries the recipient's own symbol
\* and the other's nickname; and once line 138 has run the holder of X has
\* is_my_turn = True, the holder of O has False, and a turn event with value
\* True has been written to the holder of X after its start event.
StartContents(c) ==
    /\ (pc[c] = "recv" /\ pc'[c] = "l136")
        => /\ {heap'[new_player'[c]].symbol,
               heap'[opponent'[c]].symbol} = {"X", "O"}
           /\ out'[c] = << StartFor(heap', new_player'[c], opponent'[c]) >>
    /\ (pc[c] = "l136" /\ pc'[c] = "l137")
        => out'[c] = << StartFor(heap, new_player[c], opponent[c]),
                        StartFor(heap, opponent[c], new_player[c]) >>
    /\ (pc[c] = "l137" /\ pc'[c] = "l139")
        => /\ heap'[Holder(heap, new_player[c], opponent[c], "X")]
                .is_my_turn
           /\ ~heap'[Holder(heap, new_player[c], opponent[c], "O")]
                .is_my_turn
           /\ out'[c] =
                << StartFor(heap, new_player[c], opponent[c]),
                   StartFor(heap, opponent[c], new_player[c]),
                   TurnMsg(heap[Holder(heap, new_player[c], opponent[c],
                                       "X")].websocket, TRUE) >>
    /\ (pc[c] = "l139" /\ pc'[c] # "l139")
        => /\ heap' = heap
           /\ heap[Holder(heap, new_player[c], opponent[c], "X")]
                .is_my_turn
           /\ ~heap[Holder(heap, new_player[c], opponent[c], "O")]
                .is_my_turn
           /\ pc'[c] = "recv"

\* The events of a forming match have the claimed contents and order.
StartContentsHold == [][\A c \in Conns : StartContents(c)]_vars

\* C14: when a join forms a match, each of the two players receives a start
\* event with its own symbol and the other's nickname, the symbols are X and O,
\* and the holder of X ends with is_my_turn = True and a turn event after its
\* start event. Receiving needs the player's connection to be one the server
\* still holds as active when the match is formed.
StartThenTurn ==
    [][\A c \in Conns :
        /\ StartContents(c)
        /\ (pc[c] = "recv" /\ pc'[c] = "l136")
            => /\ heap'[new_player'[c]].websocket \in active_connections'
               /\ heap'[opponent'[c]].websocket \in active_connections']_vars

\* Two connections have been paired and all three events are out.
PairingComplete ==
    \E c \in Conns :
        /\ pc[c] = "l139"
        /\ Len(out[c]) = 3
        /\ heap[opponent[c]].websocket # c
        /\ heap[new_player[c]].nickname # heap[opponent[c]].nickname
        /\ out[c][2].opponent_nickname = heap[new_player[c]].nickname

\* ---------------------------------------------------------------- C15
\* GameBoard.get_winner as a pure function: the board is any assignment of
\* " ", "X", "O" to the nine cells, and each caller c stores the result.
InitBoard ==
    /\ pc = [c \in Conns |-> "call"]
    /\ connected = [c \in Conns |-> TRUE]
    /\ active_connections = {}
    /\ waiting_players = << >>
    /\ players = << >>
    /\ heap = << >>
    /\ \E b \in AllBoards : boards = << b >>
    /\ data = [c \in Conns |-> NoData]
    /\ new_player = [c \in Conns |-> None]
    /\ player = [c \in Conns |-> None]
    /\ opponent = [c \in Conns |-> None]
    /\ winner = [c \in Conns |-> "None"]
    /\ out = [c \in Conns |-> << >>]
    /\ over = << FALSE >>

\* Line 158: winner = player.game_board.get_winner()
Evaluate(c) ==
    /\ pc[c] = "call"
    /\ winner' = [winner EXCEPT ![c] = get_winner(boards[1])]
    /\ pc' = [pc EXCEPT ![c] = "return"]
    /\ UNCHANGED <<connected, active_connections, waiting_players, players,
                   heap, boards, data, new_player, player, opponent, out,
                   over>>

NextBoard == \E c \in Conns : Evaluate(c)

SpecBoard == InitBoard /\ [][NextBoard]_vars

\* C15: on every board over {" ", "X", "O"} where X and O do not both hold a
\* line, get_winner returns the symbol that fills one of the 3 rows, 3 columns
\* or 2 diagonals; else "draw" when all nine cells are occupied; else None.
BoardEvaluation ==
    \A c \in Conns :
        (pc[c] = "return"
            /\ ~(HasLine(boards[1], "X") /\ HasLine(boards[1], "O")))
        => winner[c] = Evaluation(boards[1])

\* A board won by O on the anti-diagonal alone has been evaluated.
DiagonalWinEvaluated ==
    \E c \in Conns :
        /\ pc[c] = "return"
        /\ boards[1][3] = "O" /\ boards[1][5] = "O" /\ boards[1][7] = "O"
        /\ ~HasLine(boards[1], "X")
        /\ \A l \in Lines \ {{2, 4, 6}} :
                \E i \in l : boards[1][i + 1] # "O"
        /\ winner[c] = "O"

\* ---------------------------------------------------------------- C16
\* The connections that have sent a join: a Player object is constructed for
\* every join handled (line 120).
Joined == {heap[p].websocket : p \in DOMAIN heap}

\* C16: in every reachable state the keys of `players` are exactly the
\* connections that have sent a join and whose handler has not ended: the
\* entry exists from the join on, also while the player waits, and is removed
\* when the handler ends on disconnect or error.
RegistryLifetime ==
    DOMAIN players = {c \in Joined : pc[c] # "done"}

\* ---------------------------------------------------------------- C17
\* C17: a board cell changes only from blank to the symbol of the player whose
\* move message is accepted in that step, so a filled cell never changes again
\* and never returns to blank; a step changes at most one cell of one board,
\* and the steps that follow the acceptance of a move change none.
WriteOnceCells ==
    [][
        /\ \A g \in DOMAIN boards : \A i \in 1..9 :
            boards'[g][i] # boards[g][i]
            => /\ boards[g][i] = " "
               /\ \E c \in Conns :
                    /\ Receives(c, "move")
                    /\ pc'[c] = "l155"
                    /\ heap[player'[c]].game_board = g
                    /\ boards'[g][i] = heap[player'[c]].symbol
                    /\ ListIndex(data'[c].cell) + 1 = i
        /\ DOMAIN boards \subseteq DOMAIN boards'
        /\ Cardinality({g \in DOMAIN boards : boards'[g] # boards[g]}) <= 1
        /\ \A g \in DOMAIN boards :
            Cardinality(Changed(boards[g], boards'[g])) <= 1
        /\ \A c \in Conns :
            pc[c] \in {"l147", "l152", "l155", "l156", "l161", "l162",
                       "l168", "l169"}
            => (pc'[c] # pc[c] => boards' = boards)]_vars

\* A move has just been written onto a board that already held both symbols.
SecondRoundMoveWritten ==
    \E c \in Conns :
        /\ pc[c] = "l155"
        /\ LET b == boards[heap[player[c]].game_board] IN
            /\ Cell(b, data[c].cell) = heap[player[c]].symbol
            /\ Count(b, "X") >= 2
            /\ Count(b, "O") >= 1

\* ---------------------------------------------------------------- C18
\* C18: a message whose type is neither "join" nor "move" makes the handler
\* write one text message, to the sending connection only, and leaves
\* waiting_players, players, every board and every turn flag as they were; the
\* connection stays registered and the handler returns to receive_json.
UnknownTypeAnswered ==
    [][\A c \in Conns :
        /\ (pc[c] = "recv" /\ connected[c] /\ data[c] = NoData
                /\ data'[c].type \notin {"none", "join", "move"})
            => /\ OnlySends(c, << TextMsg(c, data'[c].type) >>)
               /\ UNCHANGED <<waiting_players, players, heap, boards, over,
                              connected, active_connections>>
               /\ pc'[c] = "l171"
        /\ (pc[c] = "l171" /\ pc'[c] # "l171")
            => /\ UNCHANGED <<waiting_players, players, heap, boards, over,
                              connected, active_connections>>
               /\ \A d \in Conns : Len(out'[d]) <= Len(out[d])
               /\ pc'[c] = "recv"]_vars

\* A paired connection has been answered while another player is waiting.
UnknownTypeSeen ==
    \E c \in Conns :
        /\ pc[c] = "l171"
        /\ out[c] = << TextMsg(c, "ping") >>
        /\ Paired(c)
        /\ waiting_players # << >>
        /\ c \in active_connections

\* ---------------------------------------------------------------- C19
\* get_winner with the eight triples scanned from the last to the first.
RECURSIVE ScanBack(_, _)
ScanBack(b, k) ==
    IF k < 1
    THEN (IF is_draw(b) THEN "draw" ELSE "None")
    ELSE IF ComboWon(b, k) THEN b[winning_combinations[k][1] + 1]
    ELSE ScanBack(b, k - 1)

\* C19: on every board the protocol reaches, moves after a gameover included,
\* X and O never both hold a line, so get_winner gives the same result
\* whichever way the triples are scanned; and a result other than "draw" is the
\* symbol of the player whose move was accepted last.
SingleWinner ==
    /\ [](\A g \in DOMAIN boards :
            /\ ~(HasLine(boards[g], "X") /\ HasLine(boards[g], "O"))
            /\ get_winner(boards[g])
                 = ScanBack(boards[g], Len(winning_combinations)))
    /\ [][\A c \in Conns :
            (pc[c] = "l156" /\ pc'[c] = "l161")
            => /\ winner'[c] \in {"draw", heap[player[c]].symbol}
               /\ winner'[c] = Evaluation(boards[heap[player[c]].game_board])
         ]_vars

\* The winner has moved again after its gameover, the move was accepted and
\* the same result is reported once more.
MoveAfterGameoverEvaluated ==
    \E c \in Conns :
        /\ pc[c] = "l161"
        /\ LET g == heap[player[c]].game_board
               s == heap[player[c]].symbol
               before == [boards[g] EXCEPT
                            ![ListIndex(data[c].cell) + 1] = " "]
           IN
            /\ winner[c] = s
            /\ HasLine(before, s)
            /\ ~Full(boards[g])

\* ---------------------------------------------------------------- C20
\* C20: for every player p stored in `players`, p and p.opponent are bound to
\* two different connections, p.opponent.opponent is p, the two share one game
\* board and hold different symbols, and players[p.opponent.websocket] is
\* p.opponent, whatever joins have been sent, a second join on a waiting or
\* paired connection included.
WellFormedPairing ==
    \A c \in DOMAIN players :
        LET p == players[c]
            q == heap[p].opponent
        IN
        /\ q # None
        /\ heap[p].websocket # heap[q].websocket
        /\ heap[q].opponent = p
        /\ heap[q].game_board = heap[p].game_board
        /\ heap[q].symbol # heap[p].symbol
        /\ heap[q].websocket \in DOMAIN players
        /\ players[heap[q].websocket] = q

====
